---- MODULE Spec2Model ----
(***************************************************************************)
(* Control flow of codes/models/Inv_model.py (class InvSRModel): the        *)
(* constructor, feed_data, optimize_parameters and test.  Tensors are       *)
(* symbolic terms (what was concatenated, sliced or passed through the      *)
(* network), the network itself (networks.define_G) is opaque.              *)
(***************************************************************************)
EXTENDS Integers, Sequences, FiniteSets, TLC

\* ------------------------------------------------------------------ bounds
\* batches the data loader can hand to feed_data
MaxData == 3
\* largest train_opt['padding_x']
MaxPad == 2
\* largest opt['scale']
MaxScale == 2
\* largest channel count of an LQ tensor
MaxChan == 3
\* largest height / width of an LQ tensor
MaxSide == 2

\* ------------------------------------------------------------- python values
\* Python's None, and an attribute that was never assigned
None == [k |-> "None"]
Unset == [k |-> "unset"]
\* the value of opt['path']['pretrain_model_G'] when it is None
NonePath == "<None>"

\* truth value of a number, as `if v:` takes it
Truthy(v) == v # 0

HasAttr(v) == v # Unset

\* ------------------------------------------------------------------ tensors
DataTensor(key, i, shape) == [k |-> "data", key |-> key, id |-> i, shape |-> shape]

Dims(n, c, h, w) == [k |-> "dims", d |-> <<n, c, h, w>>]

\* torch.cat((a, b), dim=1)
Cat(a, b) == [k |-> "cat", a |-> a, b |-> b]

\* t[:, :3, :, :]
Head3(t) == [k |-> "head3", of |-> t]

\* t[:, 3:, :, :]
Tail3(t) == [k |-> "tail3", of |-> t]

\* t.shape of a tensor whose shape the network decides
ShapeOf(t) == [k |-> "shape_of", of |-> t]

\* f * t
Mul(f, t) == [k |-> "mul", f |-> f, t |-> t]

\* torch.randn(tuple(dims)): the draw-th sample of the running call
Randn(draw, dims) == [k |-> "randn", draw |-> draw, dims |-> dims]

\* self.netG(t) / self.netG(t, rev=True), with the autograd and train/eval
\* context it ran in
NetOut(t, rev, grad, training) ==
    [k |-> "netG", rev |-> rev, in |-> t, grad |-> grad, training |-> training]

\* size of dimension 0; the network and every slice keep it
RECURSIVE Batch(_)
Batch(t) ==
    CASE t.k = "data"  -> t.shape[1]
      [] t.k = "randn" -> IF t.dims.k = "dims" THEN t.dims.d[1] ELSE Batch(t.dims.of)
      [] t.k = "cat"   -> Batch(t.a)
      [] t.k = "mul"   -> Batch(t.t)
      [] t.k = "netG"  -> Batch(t.in)
      [] OTHER         -> Batch(t.of)

\* torch.cat raises RuntimeError unless the sizes agree outside dim 1
CatFits(a, b) == Batch(a) = Batch(b)

\* ------------------------------------------------------------------- state
VARIABLES
    opt,            \* the option dictionary given to the constructor
    pc,             \* position of the running call; "idle" between calls
    raised,         \* exception the last call ended with, "none" otherwise
    netG,           \* self.netG: wrapper class, train/eval flag, loaded weights
    optimizers,     \* self.optimizers
    schedulers,     \* self.schedulers
    var_L,          \* self.var_L
    real_H,         \* self.real_H
    padding_x_dim,  \* self.padding_x_dim
    input,          \* self.input
    output,         \* self.output
    fake_H,         \* self.fake_H
    forw_L,         \* self.forw_L
    fake_H_forw,    \* self.fake_H_forw
    loc,            \* local variables of the running (or last) call
    log,            \* what the running (or last) call did, in order
    rng,            \* noise_batch draws of the running (or last) call
    grad_enabled,   \* torch's global gradient-tracking flag
    hist            \* history: the LQ of the last feed_data call, the GT of the last
                    \* one with need_GT, and whether any call raised

vars == <<opt, pc, raised, netG, optimizers, schedulers, var_L, real_H,
          padding_x_dim, input, output, fake_H, forw_L, fake_H_forw,
          loc, log, rng, grad_enabled, hist>>

attrs == <<var_L, real_H, padding_x_dim, input, output, fake_H, forw_L, fake_H_forw>>
built == <<opt, netG, optimizers, schedulers>>

\* ----------------------------------------------------------------- options
LrSchemes == {"MultiStepLR", "CosineAnnealingLR_Restart", "StepLR"}

TrainOpts(pads) ==
    [k : {"dict"}, lr_scheme : LrSchemes, padding_x : pads,
     use_learned_y : BOOLEAN, gradient_clipping : {0, 10}]

TestOpts == {None} \cup [k : {"dict"}, noise_scale : {0, 2}]

EmptyLocals ==
    [padding_xshape |-> Unset, zshape |-> Unset, input_dim |-> Unset,
     noise_scale |-> Unset, y |-> Unset, yy |-> Unset, y_forw |-> Unset,
     x_samples |-> Unset, l_forw_fit |-> Unset, l_forw_mle |-> Unset,
     l_back_rec |-> Unset, l_back_mle |-> Unset, loss |-> Unset,
     prev_grad |-> Unset]

Ev(name) == [ev |-> name]

\* the first entry of a call's record: which method runs
Call(name) == [ev |-> "call", name |-> name]

NetEv(t) == [ev |-> "netG", rev |-> t.rev, grad |-> t.grad, training |-> t.training,
             arg |-> t.in]

\* a call ends with an exception: control returns to the caller
Raise(exc) ==
    /\ pc' = "idle"
    /\ raised' = exc
    /\ hist' = [hist EXCEPT !.failed = TRUE]

\* ------------------------------------------------------------- construction
\* what BaseModel.__init__(opt) leaves behind: no optimizers, no schedulers
BaseModelInit ==
    /\ optimizers = <<>>
    /\ schedulers = <<>>

is_train == opt.is_train

train_opt == opt.train

test_opt == opt.test

\* self.optimizer_G, assigned together with the append to self.optimizers
optimizer_G == IF optimizers = <<>> THEN Unset ELSE optimizers[Len(optimizers)]

CtorOpts ==
    { o \in [is_train : BOOLEAN, dist : BOOLEAN, pretrain_model_G : {NonePath, "G.pth"},
             scale : {MaxScale}, train : {None} \cup TrainOpts({0}), test : {None}] :
        o.is_train => o.train # None }

InitCtor ==
    /\ opt \in CtorOpts
    /\ pc = "new"
    /\ raised = "none"
    /\ netG = Unset
    /\ BaseModelInit
    /\ var_L = Unset /\ real_H = Unset /\ padding_x_dim = Unset
    /\ input = Unset /\ output = Unset
    /\ fake_H = Unset /\ forw_L = Unset /\ fake_H_forw = Unset
    /\ loc = EmptyLocals
    /\ log = <<>>
    /\ rng = 0
    /\ grad_enabled = TRUE
    /\ hist = [lq |-> Unset, gt |-> Unset, failed |-> FALSE]

\* networks.define_G(opt).to(self.device)
DefineG ==
    /\ pc = "new"
    /\ netG' = [cls |-> "Module", training |-> TRUE, loaded |-> "none"]
    /\ log' = <<Call("__init__"), Ev("define_G")>>
    /\ pc' = "wrap"
    /\ UNCHANGED <<opt, raised, optimizers, schedulers, attrs, loc, rng, grad_enabled, hist>>

WrapperFor(dist) == IF dist THEN "DistributedDataParallel" ELSE "DataParallel"

\* the freshly built wrapper module is in training mode
WrapParallel ==
    /\ pc = "wrap"
    /\ netG' = [netG EXCEPT !.cls = WrapperFor(opt.dist), !.training = TRUE]
    /\ log' = Append(log, Ev("wrap"))
    /\ pc' = "load"
    /\ UNCHANGED <<opt, raised, optimizers, schedulers, attrs, loc, rng, grad_enabled, hist>>

\* variant of MustLoad: the test on the path is inverted
MustLoad_inverted(path) == path = NonePath

MustLoad(path) == path # NonePath

\* self.load(): load_network into the current self.netG when a path is given
load ==
    /\ pc = "load"
    /\ IF MustLoad(opt.pretrain_model_G)
         THEN /\ netG' = [netG EXCEPT !.loaded = opt.pretrain_model_G]
              /\ log' = Append(log, [ev |-> "load_network", into |-> netG.cls])
         ELSE UNCHANGED <<netG, log>>
    /\ pc' = IF is_train THEN "optimizers" ELSE "idle"
    /\ UNCHANGED <<opt, raised, optimizers, schedulers, attrs, loc, rng, grad_enabled, hist>>

Adam == [cls |-> "Adam", params |-> "netG"]

\* netG.train(), the losses, and the one Adam optimizer
SetupOptimizers ==
    /\ pc = "optimizers"
    /\ netG' = [netG EXCEPT !.training = TRUE]
    /\ optimizers' = Append(optimizers, Adam)
    /\ log' = Append(log, Ev("optimizer"))
    /\ pc' = "schedulers"
    /\ UNCHANGED <<opt, raised, schedulers, attrs, loc, rng, grad_enabled, hist>>

\* variant of SchedulerClass: an unknown scheme falls back to MultiStepLR
SchedulerClass_fallback(scheme) ==
    IF scheme = "CosineAnnealingLR_Restart" THEN "CosineAnnealingLR_Restart"
    ELSE "MultiStepLR_Restart"

SchedulerClass(scheme) ==
    CASE scheme = "MultiStepLR" -> "MultiStepLR_Restart"
      [] scheme = "CosineAnnealingLR_Restart" -> "CosineAnnealingLR_Restart"
      [] OTHER -> "NotImplementedError"

SchedulersFor(cls, opts) == [i \in 1..Len(opts) |-> [cls |-> cls, optimizer |-> opts[i]]]

\* one scheduler for each optimizer, or NotImplementedError
SetupSchedulers ==
    /\ pc = "schedulers"
    /\ LET cls == SchedulerClass(train_opt.lr_scheme) IN
       IF cls = "NotImplementedError"
         THEN /\ pc' = "dead"
              /\ raised' = "NotImplementedError"
              /\ UNCHANGED <<schedulers, log>>
         ELSE /\ schedulers' = schedulers \o SchedulersFor(cls, optimizers)
              /\ log' = Append(log, Ev("scheduler"))
              /\ pc' = "idle"
              /\ UNCHANGED raised
    /\ UNCHANGED <<opt, netG, optimizers, attrs, loc, rng, grad_enabled, hist>>

NextCtor == DefineG \/ WrapParallel \/ load \/ SetupOptimizers \/ SetupSchedulers

SpecInit == InitCtor /\ [][NextCtor]_vars

\* ---------------------------------------------------------------- lifecycle
\* the attributes a finished constructor leaves for options o
Constructed(o) ==
    /\ netG = [cls |-> WrapperFor(o.dist), training |-> TRUE,
               loaded |-> IF MustLoad(o.pretrain_model_G) THEN o.pretrain_model_G ELSE "none"]
    /\ optimizers = IF o.is_train THEN <<Adam>> ELSE <<>>
    /\ schedulers = IF o.is_train
                      THEN SchedulersFor(SchedulerClass(o.train.lr_scheme), <<Adam>>)
                      ELSE <<>>

\* after construction nothing was fed and no call has run
Fresh ==
    /\ pc = "idle"
    /\ raised = "none"
    /\ var_L = Unset /\ real_H = Unset /\ padding_x_dim = Unset
    /\ input = Unset /\ output = Unset
    /\ fake_H = Unset /\ forw_L = Unset /\ fake_H_forw = Unset
    /\ loc = EmptyLocals
    /\ log = <<>>
    /\ rng = 0
    /\ grad_enabled = TRUE
    /\ hist = [lq |-> Unset, gt |-> Unset, failed |-> FALSE]

\* options of a model whose construction succeeded
LifeOpts ==
    { o \in [is_train : BOOLEAN, dist : {FALSE}, pretrain_model_G : {NonePath},
             scale : {MaxScale}, train : {None} \cup TrainOpts(0..MaxPad), test : TestOpts] :
        /\ o.is_train => o.train # None
        /\ o.train # None => /\ o.train.lr_scheme = "MultiStepLR"
                             /\ ~o.train.use_learned_y
                             /\ o.train.gradient_clipping = 0 }

Init ==
    /\ opt \in LifeOpts
    /\ Constructed(opt)
    /\ Fresh

\* the loader's batches: all full but the last one of the epoch
BatchSize(i) == IF i = MaxData THEN 1 ELSE 2

LoaderBatch(i, scale) ==
    [LQ |-> DataTensor("LQ", i, <<BatchSize(i), 3, 1, 2>>),
     GT |-> DataTensor("GT", i, <<BatchSize(i), 3, scale, 2 * scale>>)]

LoaderBatches == { LoaderBatch(i, opt.scale) : i \in 1..MaxData }

\* a call begins: no other call is running
Enter == pc = "idle"

\* variant of feed_data: the GT is stored whatever need_GT says
feed_data_always(data, need_GT) ==
    /\ Enter
    /\ var_L' = data.LQ
    /\ real_H' = data.GT
    /\ hist' = [hist EXCEPT !.lq = data.LQ,
                            !.gt = IF need_GT THEN data.GT ELSE hist.gt]
    /\ log' = <<Call("feed_data")>>
    /\ loc' = EmptyLocals
    /\ rng' = 0
    /\ pc' = "idle"
    /\ raised' = "none"
    /\ UNCHANGED <<built, padding_x_dim, input, output, fake_H, forw_L, fake_H_forw,
                   grad_enabled>>

feed_data(data, need_GT) ==
    /\ Enter
    /\ var_L' = data.LQ
    /\ real_H' = IF need_GT THEN data.GT ELSE real_H
    /\ hist' = [hist EXCEPT !.lq = data.LQ,
                            !.gt = IF need_GT THEN data.GT ELSE hist.gt]
    /\ log' = <<Call("feed_data")>>
    /\ loc' = EmptyLocals
    /\ rng' = 0
    /\ pc' = "idle"
    /\ raised' = "none"
    /\ UNCHANGED <<built, padding_x_dim, input, output, fake_H, forw_L, fake_H_forw,
                   grad_enabled>>

\* self.noise_batch(dims): the next draw of the running call
noise_batch(dims) == Randn(rng + 1, dims)

\* ------------------------------------------------------ optimize_parameters
\* self.optimizer_G.zero_grad()
OptZeroGrad ==
    /\ Enter
    /\ loc' = EmptyLocals
    /\ rng' = 0
    /\ IF HasAttr(optimizer_G)
         THEN /\ log' = <<Call("optimize_parameters"), Ev("zero_grad")>>
              /\ pc' = "opt_input"
              /\ raised' = "none"
              /\ UNCHANGED hist
         ELSE /\ log' = <<Call("optimize_parameters")>>
              /\ Raise("AttributeError")
    /\ UNCHANGED <<built, attrs, grad_enabled>>

PaddedInput(h, pad, draw) ==
    Cat(h, Randn(draw, Dims(h.shape[1], pad, h.shape[3], h.shape[4])))

\* self.input: real_H, with padding_x noise channels when padding_x is set
OptInput ==
    /\ pc = "opt_input"
    /\ padding_x_dim' = IF Truthy(train_opt.padding_x) THEN train_opt.padding_x
                        ELSE padding_x_dim
    /\ IF ~HasAttr(real_H)
         THEN /\ Raise("AttributeError")
              /\ UNCHANGED <<input, loc, rng>>
         ELSE /\ IF Truthy(train_opt.padding_x)
                   THEN /\ loc' = [loc EXCEPT !.padding_xshape =
                                     Dims(real_H.shape[1], train_opt.padding_x,
                                          real_H.shape[3], real_H.shape[4])]
                        /\ input' = PaddedInput(real_H, train_opt.padding_x, rng + 1)
                        /\ rng' = rng + 1
                   ELSE /\ input' = real_H
                        /\ UNCHANGED <<loc, rng>>
              /\ pc' = "opt_forward"
              /\ UNCHANGED <<raised, hist>>
    /\ UNCHANGED <<built, var_L, real_H, output, fake_H, forw_L, fake_H_forw, log,
                   grad_enabled>>

\* a sum of loss terms; the empty sum is `loss = 0`
Sum(terms) == [k |-> "sum", terms |-> terms]

\* self.output = self.netG(self.input); loss = 0
OptForward ==
    /\ pc = "opt_forward"
    /\ output' = NetOut(input, FALSE, grad_enabled, netG.training)
    /\ loc' = [loc EXCEPT !.loss = Sum(<<>>)]
    /\ log' = Append(log, NetEv(output'))
    /\ pc' = "opt_sample"
    /\ UNCHANGED <<built, raised, var_L, real_H, padding_x_dim, input, fake_H, forw_L,
                   fake_H_forw, rng, grad_enabled, hist>>

\* variant of BackwardInput: the learned y reuses the noise of y
BackwardInput_sharedNoise(learned, y, out, noise) ==
    IF learned THEN Cat(Head3(out), y.b) ELSE y

\* the reverse pass's input: the network's own LR output when use_learned_y, else y
BackwardInput(learned, y, out, noise) == IF learned THEN Cat(Head3(out), noise) ELSE y

\* zshape, y and yy
OptSample ==
    /\ pc = "opt_sample"
    /\ LET zshape == ShapeOf(Tail3(output))
           noise  == noise_batch(zshape)
           y      == Cat(var_L, noise)
       IN IF ~CatFits(var_L, noise)
            THEN /\ Raise("RuntimeError")
                 /\ loc' = [loc EXCEPT !.zshape = zshape]
                 /\ rng' = rng + 1
            ELSE /\ loc' = [loc EXCEPT !.zshape = zshape, !.y = y,
                              !.yy = BackwardInput(train_opt.use_learned_y, y, output,
                                                   Randn(rng + 2, zshape))]
                 /\ rng' = IF train_opt.use_learned_y THEN rng + 2 ELSE rng + 1
                 /\ pc' = "opt_loss_forward"
                 /\ UNCHANGED <<raised, hist>>
    /\ UNCHANGED <<built, attrs, log, grad_enabled>>

Loss(name, lambda, a, b) == [k |-> "loss", name |-> name, lambda |-> lambda, a |-> a, b |-> b]

Zero == [k |-> "const", v |-> 0]

loss_forward(out, y) ==
    [fit |-> Loss("l_forw_fit", "lambda_fit_forw", Head3(out), Head3(y)),
     mle |-> Loss("l_forw_mle", "lambda_mle_forw", Tail3(out), None)]

OptLossForward ==
    /\ pc = "opt_loss_forward"
    /\ LET l == loss_forward(output, loc.y)
       IN loc' = [loc EXCEPT !.l_forw_fit = l.fit, !.l_forw_mle = l.mle]
    /\ log' = Append(log, Ev("loss_forward"))
    /\ pc' = "opt_loss_backward"
    /\ UNCHANGED <<built, raised, attrs, rng, grad_enabled, hist>>

\* loss_backward(x, y) once x_samples = self.netG(y, rev=True) is there
loss_backward(x, x_samples, pad) ==
    [rec |-> Loss("l_back_rec", "lambda_rec_back", x, Head3(x_samples)),
     mle |-> IF Truthy(pad)
               THEN Loss("l_back_mle", "lambda_mle_back", Tail3(x_samples), None)
               ELSE Zero]

OptLossBackward ==
    /\ pc = "opt_loss_backward"
    /\ LET x_samples == NetOut(loc.yy, TRUE, grad_enabled, netG.training)
           l == loss_backward(real_H, x_samples, train_opt.padding_x)
       IN /\ loc' = [loc EXCEPT !.x_samples = x_samples, !.l_back_rec = l.rec,
                                !.l_back_mle = l.mle]
          /\ log' = log \o <<NetEv(x_samples), Ev("loss_backward")>>
    /\ pc' = "opt_backward"
    /\ UNCHANGED <<built, raised, attrs, rng, grad_enabled, hist>>

\* variant of Summands: the forward latent-norm term is left out of the sum
Summands_noForwMle(l) == <<l.l_forw_fit, l.l_back_rec, l.l_back_mle>>

Summands(l) == <<l.l_forw_fit, l.l_back_rec, l.l_forw_mle, l.l_back_mle>>

\* loss += ...; loss.backward()
OptBackward ==
    /\ pc = "opt_backward"
    /\ loc' = [loc EXCEPT !.loss = Sum(loc.loss.terms \o Summands(loc))]
    /\ log' = Append(log, Ev("backward"))
    /\ pc' = "opt_clip"
    /\ UNCHANGED <<built, raised, attrs, rng, grad_enabled, hist>>

\* variant of OptClip: clips whatever the option says
OptClip_always ==
    /\ pc = "opt_clip"
    /\ log' = Append(log, Ev("clip"))
    /\ pc' = "opt_step"
    /\ UNCHANGED <<built, raised, attrs, loc, rng, grad_enabled, hist>>

\* clip_grad_norm_ when train_opt['gradient_clipping'] is set
OptClip ==
    /\ pc = "opt_clip"
    /\ log' = IF Truthy(train_opt.gradient_clipping) THEN Append(log, Ev("clip")) ELSE log
    /\ pc' = "opt_step"
    /\ UNCHANGED <<built, raised, attrs, loc, rng, grad_enabled, hist>>

\* self.optimizer_G.step()
OptStep ==
    /\ pc = "opt_step"
    /\ log' = Append(log, Ev("step"))
    /\ pc' = "idle"
    /\ UNCHANGED <<built, raised, attrs, loc, rng, grad_enabled, hist>>

optimize_parameters ==
    \/ OptZeroGrad \/ OptInput \/ OptForward \/ OptSample \/ OptLossForward
    \/ OptLossBackward \/ OptBackward \/ OptClip \/ OptStep

\* --------------------------------------------------------------------- test
\* padding only when train options exist and padding_x is set
PaddingOn(topt) == topt # None /\ Truthy(topt.padding_x)

\* input_dim: the LQ channels, plus padding_x_dim when padding is on
InputDim(Lshape, topt) == IF PaddingOn(topt) THEN topt.padding_x + Lshape[2] ELSE Lshape[2]

\* variant of TestZShape: scale where scale**2 belongs
TestZShape_linear(Lshape, input_dim, scale) ==
    Dims(Lshape[1], input_dim * scale - Lshape[2], Lshape[3], Lshape[4])

\* zshape = [Lshape[0], input_dim * scale**2 - Lshape[1], Lshape[2], Lshape[3]]
TestZShape(Lshape, input_dim, scale) ==
    Dims(Lshape[1], input_dim * (scale * scale) - Lshape[2], Lshape[3], Lshape[4])

\* Lshape, self.input, input_dim and zshape
TestShapes ==
    /\ Enter
    /\ log' = <<Call("test")>>
    /\ IF ~HasAttr(var_L)
         THEN /\ Raise("AttributeError")
              /\ loc' = EmptyLocals
              /\ rng' = 0
              /\ UNCHANGED <<padding_x_dim, input>>
         ELSE /\ padding_x_dim' = IF PaddingOn(train_opt) THEN train_opt.padding_x
                                  ELSE padding_x_dim
              /\ IF ~HasAttr(real_H)
                   THEN /\ Raise("AttributeError")
                        /\ loc' = EmptyLocals
                        /\ rng' = 0
                        /\ UNCHANGED input
                   ELSE /\ input' = IF PaddingOn(train_opt)
                                      THEN PaddedInput(real_H, train_opt.padding_x, 1)
                                      ELSE real_H
                        /\ rng' = IF PaddingOn(train_opt) THEN 1 ELSE 0
                        /\ LET Lshape    == var_L.shape
                               input_dim == InputDim(Lshape, train_opt)
                           IN loc' = [EmptyLocals EXCEPT
                                        !.input_dim = input_dim,
                                        !.zshape = TestZShape(Lshape, input_dim, opt.scale)]
                        /\ pc' = "test_sample"
                        /\ raised' = "none"
                        /\ UNCHANGED hist
    /\ UNCHANGED <<built, var_L, real_H, output, fake_H, forw_L, fake_H_forw, grad_enabled>>

\* variant of NoiseScale: a configured 0 is taken as the factor
NoiseScale_keepsZero(topt) == IF topt # None THEN topt.noise_scale ELSE 1

\* the factor of the latent noise: test_opt['noise_scale'] when set, else 1
NoiseScale(topt) == IF topt # None /\ Truthy(topt.noise_scale) THEN topt.noise_scale ELSE 1

\* noise_scale and y = cat(var_L, noise_scale * noise)
TestSample ==
    /\ pc = "test_sample"
    /\ LET noise_scale == NoiseScale(test_opt)
       IN loc' = [loc EXCEPT !.noise_scale = noise_scale,
                             !.y = Cat(var_L, Mul(noise_scale, noise_batch(loc.zshape)))]
    /\ rng' = rng + 1
    /\ pc' = "test_eval"
    /\ UNCHANGED <<built, raised, attrs, log, grad_enabled, hist>>

\* self.netG.eval()
TestEval ==
    /\ pc = "test_eval"
    /\ netG' = [netG EXCEPT !.training = FALSE]
    /\ log' = Append(log, Ev("eval"))
    /\ pc' = "test_no_grad"
    /\ UNCHANGED <<opt, optimizers, schedulers, raised, attrs, loc, rng, grad_enabled, hist>>

\* variant of TestNoGrad: the second block does not switch gradient tracking off
TestNoGrad_firstOnly ==
    /\ pc \in {"test_no_grad", "test_no_grad_forw"}
    /\ loc' = [loc EXCEPT !.prev_grad = grad_enabled]
    /\ grad_enabled' = IF pc = "test_no_grad" THEN FALSE ELSE grad_enabled
    /\ pc' = IF pc = "test_no_grad" THEN "test_reverse" ELSE "test_reverse_forw"
    /\ UNCHANGED <<built, raised, attrs, log, rng, hist>>

\* with torch.no_grad(): entered (both blocks)
TestNoGrad ==
    /\ pc \in {"test_no_grad", "test_no_grad_forw"}
    /\ loc' = [loc EXCEPT !.prev_grad = grad_enabled]
    /\ grad_enabled' = FALSE
    /\ pc' = IF pc = "test_no_grad" THEN "test_reverse" ELSE "test_reverse_forw"
    /\ UNCHANGED <<built, raised, attrs, log, rng, hist>>

\* self.fake_H = self.netG(y, rev=True)[:, :3, :, :]
TestReverse ==
    /\ pc = "test_reverse"
    /\ LET out == NetOut(loc.y, TRUE, grad_enabled, netG.training)
       IN /\ fake_H' = Head3(out)
          /\ log' = Append(log, NetEv(out))
    /\ pc' = "test_forward"
    /\ UNCHANGED <<built, raised, var_L, real_H, padding_x_dim, input, output, forw_L,
                   fake_H_forw, loc, rng, grad_enabled, hist>>

\* self.forw_L = self.netG(self.input)[:, :3, :, :]; the no_grad block ends
TestForward ==
    /\ pc = "test_forward"
    /\ LET out == NetOut(input, FALSE, grad_enabled, netG.training)
       IN /\ forw_L' = Head3(out)
          /\ log' = Append(log, NetEv(out))
    /\ grad_enabled' = loc.prev_grad
    /\ pc' = "test_sample_forw"
    /\ UNCHANGED <<built, raised, var_L, real_H, padding_x_dim, input, output, fake_H,
                   fake_H_forw, loc, rng, hist>>

\* y_forw = cat(forw_L, noise_scale * noise)
TestSampleForw ==
    /\ pc = "test_sample_forw"
    /\ LET noise == Mul(loc.noise_scale, noise_batch(loc.zshape))
       IN IF ~CatFits(forw_L, noise)
            THEN /\ Raise("RuntimeError")
                 /\ UNCHANGED loc
            ELSE /\ loc' = [loc EXCEPT !.y_forw = Cat(forw_L, noise)]
                 /\ pc' = "test_no_grad_forw"
                 /\ UNCHANGED <<raised, hist>>
    /\ rng' = rng + 1
    /\ UNCHANGED <<built, attrs, log, grad_enabled>>

\* self.fake_H_forw = self.netG(y_forw, rev=True)[:, :3, :, :]; the block ends
TestReverseForw ==
    /\ pc = "test_reverse_forw"
    /\ LET out == NetOut(loc.y_forw, TRUE, grad_enabled, netG.training)
       IN /\ fake_H_forw' = Head3(out)
          /\ log' = Append(log, NetEv(out))
    /\ grad_enabled' = loc.prev_grad
    /\ pc' = "test_train"
    /\ UNCHANGED <<built, raised, var_L, real_H, padding_x_dim, input, output, fake_H,
                   forw_L, loc, rng, hist>>

\* variant of TestTrain: the network is left as it is
TestTrain_skipped ==
    /\ pc = "test_train"
    /\ log' = Append(log, Ev("train"))
    /\ pc' = "idle"
    /\ UNCHANGED <<built, raised, attrs, loc, rng, grad_enabled, hist>>

\* self.netG.train()
TestTrain ==
    /\ pc = "test_train"
    /\ netG' = [netG EXCEPT !.training = TRUE]
    /\ log' = Append(log, Ev("train"))
    /\ pc' = "idle"
    /\ UNCHANGED <<opt, optimizers, schedulers, raised, attrs, loc, rng, grad_enabled, hist>>

test ==
    \/ TestShapes \/ TestSample \/ TestEval \/ TestNoGrad \/ TestReverse
    \/ TestForward \/ TestSampleForw \/ TestReverseForw \/ TestTrain

\* ------------------------------------------------------------ specifications
FeedData == \E data \in LoaderBatches, need_GT \in BOOLEAN : feed_data(data, need_GT)

Next == FeedData \/ optimize_parameters \/ test

\* every test-time option varies; training options only as far as test reads them
Spec == Init /\ [][Next]_vars

\* options of a model built for training: every option optimize_parameters reads
TrainLifeOpts ==
    { o \in [is_train : {TRUE}, dist : {FALSE}, pretrain_model_G : {NonePath},
             scale : {MaxScale}, train : TrainOpts(0..MaxPad), test : {None}] :
        o.train.lr_scheme = "MultiStepLR" }

InitTrain ==
    /\ opt \in TrainLifeOpts
    /\ Constructed(opt)
    /\ Fresh

SpecTrain == InitTrain /\ [][Next]_vars

\* LQ shapes, scales and paddings for the shape arithmetic of test()
ShapeOpts ==
    [is_train : {FALSE}, dist : {FALSE}, pretrain_model_G : {NonePath},
     scale : 1..MaxScale,
     train : {None} \cup { t \in TrainOpts(0..MaxPad) :
                             /\ t.lr_scheme = "MultiStepLR"
                             /\ ~t.use_learned_y
                             /\ t.gradient_clipping = 0 },
     test : {None}]

ShapedBatch(n, c, h, w, scale) ==
    [LQ |-> DataTensor("LQ", 1, <<n, c, h, w>>),
     GT |-> DataTensor("GT", 1, <<n, c, h * scale, w * scale>>)]

InitShape ==
    /\ opt \in ShapeOpts
    /\ Constructed(opt)
    /\ \E n \in {1, 2}, c \in 1..MaxChan, h \in 1..MaxSide, w \in 1..MaxSide :
         LET data == ShapedBatch(n, c, h, w, opt.scale)
         IN /\ var_L = data.LQ
            /\ real_H = data.GT
            /\ hist = [lq |-> data.LQ, gt |-> data.GT, failed |-> FALSE]
    /\ pc = "idle"
    /\ raised = "none"
    /\ padding_x_dim = Unset
    /\ input = Unset /\ output = Unset
    /\ fake_H = Unset /\ forw_L = Unset /\ fake_H_forw = Unset
    /\ loc = EmptyLocals
    /\ log = <<Call("feed_data")>>
    /\ rng = 0
    /\ grad_enabled = TRUE

SpecShape == InitShape /\ [][test]_vars

\* -------------------------------------------------------------- properties
LastCall == IF log = <<>> THEN "none" ELSE log[1].name

\* the call `name` has returned without an exception
Done(name) == LastCall = name /\ pc = "idle" /\ raised = "none"

StepName(e) == IF e.ev = "netG" THEN (IF e.rev THEN "reverse" ELSE "forward") ELSE e.ev

StepNames(l) == [i \in 1..Len(l) |-> StepName(l[i])]

IsPrefix(a, b) == Len(a) <= Len(b) /\ \A i \in 1..Len(a) : a[i] = b[i]

IsNet(e) == e.ev = "netG"

\* the construction ends in the state the lifecycle starts from
CtorEstablishesConstructed == pc = "idle" => Constructed(opt)

OptOrder(clip) ==
    <<"call", "zero_grad", "forward", "loss_forward", "reverse", "loss_backward",
      "backward">> \o (IF clip THEN <<"clip">> ELSE <<>>) \o <<"step">>

\* C1: a call of optimize_parameters does, in this order and once each:
\* zero_grad, the forward pass on self.input, the forward losses, the reverse
\* pass and the backward losses, backward, clipping exactly when
\* gradient_clipping is set, and the optimizer step.  A call that raises has
\* done a prefix of that order; step never precedes backward or clipping.
C1_OptimizeOrder ==
    LastCall = "optimize_parameters" =>
        LET order == OptOrder(train_opt # None /\ train_opt.gradient_clipping # 0)
            steps == StepNames(log)
        IN /\ IsPrefix(steps, order)
           /\ (pc = "idle" /\ raised = "none") => steps = order
           /\ \A i \in 1..Len(log) :
                /\ (IsNet(log[i]) /\ ~log[i].rev) => log[i].arg = input
                /\ log[i].ev = "step" =>
                     /\ \E j \in 1..(i - 1) : log[j].ev = "backward"
                     /\ \A j \in 1..Len(log) :
                          log[j].ev \in {"backward", "clip"} => j < i

C1_Witness ==
    /\ Done("optimize_parameters")
    /\ train_opt.gradient_clipping # 0
    /\ \E i \in 1..Len(log) : log[i].ev = "clip"

\* C2: in test() the network runs only between eval() and train(), in eval
\* mode and with gradient tracking off; a finished test() ran it three times:
\* in reverse on the fed LQ joined with noise drawn for it alone, forward on
\* self.input, and in reverse on the forward result joined with noise.
C2_TestNetworkCalls ==
    /\ pc \in {"test_reverse", "test_forward", "test_reverse_forw"} =>
         ~netG.training /\ ~grad_enabled
    /\ LastCall = "test" =>
         \A i \in 1..Len(log) :
            IsNet(log[i]) =>
               /\ ~log[i].training
               /\ ~log[i].grad
               /\ \E j \in 1..(i - 1) : log[j].ev = "eval"
               /\ \A j \in 1..(i - 1) : log[j].ev # "train"
    /\ Done("test") =>
         LET calls == SelectSeq(log, IsNet)
         IN /\ StepNames(calls) = <<"reverse", "forward", "reverse">>
            /\ calls[1].arg = loc.y
            /\ loc.y.a = var_L
            /\ loc.y.b.t.k = "randn"
            /\ input.k = "cat" => input.b.draw # loc.y.b.t.draw
            /\ loc.y_forw.b.t.draw # loc.y.b.t.draw
            /\ calls[2].arg = input
            /\ forw_L = Head3(NetOut(input, FALSE, FALSE, FALSE))
            /\ calls[3].arg = Cat(forw_L, loc.y_forw.b)
            /\ log[Len(log)].ev = "train"
            /\ grad_enabled

C2_Witness == Done("test") /\ PaddingOn(train_opt) /\ var_L.id # real_H.id

\* channels of a tensor whose shape is known
RECURSIVE Channels(_)
Channels(t) ==
    CASE t.k = "data"  -> t.shape[2]
      [] t.k = "randn" -> t.dims.d[2]
      [] t.k = "mul"   -> Channels(t.t)
      [] t.k = "cat"   -> Channels(t.a) + Channels(t.b)

\* p of the claim: padding_x, 0 without train options
PadChannels == IF train_opt = None THEN 0 ELSE train_opt.padding_x

\* C3: in test(), for an LQ tensor of shape (N, C, H, W), scale s >= 1 and
\* padding p, the latent noise has shape (N, (C + p) * s^2 - C, H, W) with a
\* channel count >= 0, and the reverse pass's input has (C + p) * s^2 channels.
C3_LatentShape ==
    (LastCall = "test" /\ loc.zshape # Unset) =>
        LET L == var_L.shape
            z == loc.zshape.d
        IN /\ z = <<L[1], (L[2] + PadChannels) * opt.scale * opt.scale - L[2], L[3], L[4]>>
           /\ z[2] >= 0
           /\ loc.y # Unset =>
                /\ loc.y.b.t.dims = loc.zshape
                /\ Channels(loc.y) = (L[2] + PadChannels) * opt.scale * opt.scale
           /\ loc.y_forw # Unset => loc.y_forw.b.t.dims = loc.zshape

C3_Witness ==
    /\ Done("test")
    /\ PadChannels > 0
    /\ opt.scale > 1
    /\ var_L.shape[2] < 3
    /\ var_L.shape[3] # var_L.shape[4]

TermSet(q) == { q[i] : i \in 1..Len(q) }

\* C4: the loss handed to backward() is the sum of exactly four terms, the
\* fit and latent-norm term of the forward pass and the reconstruction and
\* latent-norm term of the reverse pass; without padding_x the reverse
\* latent-norm term is the constant 0 and self.input is real_H itself, with
\* padding_x it is real_H joined with padding_x noise channels.
C4_LossTerms ==
    (LastCall = "optimize_parameters" /\ pc \in {"opt_clip", "opt_step", "idle"}
       /\ raised = "none") =>
        /\ Len(loc.loss.terms) = 4
        /\ TermSet(loc.loss.terms) =
             {loc.l_forw_fit, loc.l_forw_mle, loc.l_back_rec, loc.l_back_mle}
        /\ loc.l_forw_fit.name = "l_forw_fit" /\ loc.l_forw_fit.a = Head3(output)
        /\ loc.l_forw_mle.name = "l_forw_mle" /\ loc.l_forw_mle.a = Tail3(output)
        /\ loc.l_back_rec.name = "l_back_rec"
        /\ loc.l_back_rec.a = real_H /\ loc.l_back_rec.b = Head3(loc.x_samples)
        /\ loc.x_samples.rev
        /\ output = NetOut(input, FALSE, TRUE, netG.training)
        /\ IF train_opt.padding_x = 0
             THEN /\ loc.l_back_mle = Zero
                  /\ input = real_H
             ELSE /\ loc.l_back_mle.name = "l_back_mle"
                  /\ loc.l_back_mle.a = Tail3(loc.x_samples)
                  /\ input.k = "cat"
                  /\ input.a = real_H
                  /\ input.b.k = "randn"
                  /\ input.b.dims = Dims(real_H.shape[1], train_opt.padding_x,
                                         real_H.shape[3], real_H.shape[4])

C4_Witness ==
    /\ Done("optimize_parameters")
    /\ train_opt.padding_x > 1
    /\ real_H.shape[3] # real_H.shape[4]

\* C5: a model built for training has one optimizer and, for the schemes
\* MultiStepLR and CosineAnnealingLR_Restart, one scheduler for it; any other
\* scheme ends the construction with NotImplementedError.  A model built
\* with is_train false has neither, and its construction never raises.
C5_OptimizersAndSchedulers ==
    LET known == train_opt # None
                   /\ train_opt.lr_scheme \in {"MultiStepLR", "CosineAnnealingLR_Restart"}
    IN /\ pc = "idle" =>
            IF is_train
              THEN /\ Len(optimizers) = 1
                   /\ Len(schedulers) = Len(optimizers)
                   /\ \A i \in 1..Len(schedulers) :
                        /\ schedulers[i].optimizer = optimizers[i]
                        /\ schedulers[i].cls =
                             IF train_opt.lr_scheme = "MultiStepLR"
                               THEN "MultiStepLR_Restart"
                               ELSE "CosineAnnealingLR_Restart"
                   /\ known
              ELSE optimizers = <<>> /\ schedulers = <<>>
       /\ pc = "dead" =>
            /\ is_train
            /\ ~known
            /\ raised = "NotImplementedError"
            /\ schedulers = <<>>
       /\ ~is_train => (pc # "dead" /\ raised = "none")
       /\ raised # "none" => pc = "dead"

C5_Witness ==
    /\ pc = "idle"
    /\ is_train
    /\ train_opt.lr_scheme = "CosineAnnealingLR_Restart"
    /\ Len(schedulers) = 1

\* C6: the checkpoint is loaded exactly when pretrain_model_G is not None,
\* whether or not the model is built for training; the load goes into the
\* wrapped network (DistributedDataParallel when dist, else DataParallel) and
\* precedes every optimizer and scheduler.
C6_LoadOrder ==
    LET wanted == opt.pretrain_model_G # NonePath
        loads  == { i \in 1..Len(log) : log[i].ev = "load_network" }
    IN /\ pc \in {"optimizers", "schedulers", "idle", "dead"} =>
            /\ Cardinality(loads) = IF wanted THEN 1 ELSE 0
            /\ (netG.loaded # "none") <=> wanted
       /\ \A i \in loads :
            /\ \E j \in 1..(i - 1) : log[j].ev = "wrap"
            /\ log[i].into = IF opt.dist THEN "DistributedDataParallel" ELSE "DataParallel"
            /\ netG.cls = log[i].into
            /\ \A j \in 1..(i - 1) : log[j].ev \notin {"optimizer", "scheduler"}
       /\ (optimizers # <<>> \/ schedulers # <<>>) => pc \notin {"new", "wrap", "load"}

C6_Witness ==
    /\ pc = "idle"
    /\ ~is_train
    /\ opt.dist
    /\ netG.loaded = "G.pth"

\* C7: the forward loss is computed against y = var_L joined with noise; the
\* reverse pass of the backward loss takes the first three channels of the
\* network's output joined with noise of its own when use_learned_y is set,
\* and the very same y otherwise.
C7_LossInputs ==
    (LastCall = "optimize_parameters" /\ loc.x_samples # Unset) =>
        /\ loc.y.k = "cat"
        /\ loc.y.a = var_L
        /\ loc.y.b.k = "randn"
        /\ loc.l_forw_fit.b = Head3(loc.y)
        /\ loc.x_samples.rev
        /\ IF train_opt.use_learned_y
             THEN /\ loc.x_samples.in.k = "cat"
                  /\ loc.x_samples.in.a = Head3(output)
                  /\ loc.x_samples.in.b.k = "randn"
                  /\ loc.x_samples.in.b.draw # loc.y.b.draw
                  /\ loc.x_samples.in.b.dims = loc.y.b.dims
             ELSE loc.x_samples.in = loc.y

C7_Witness ==
    /\ Done("optimize_parameters")
    /\ train_opt.use_learned_y
    /\ var_L.id # real_H.id

\* the factor the claim names
ClaimedFactor ==
    IF test_opt = None THEN 1
    ELSE IF test_opt.noise_scale = 0 THEN 1 ELSE test_opt.noise_scale

\* C8: both reverse-pass inputs of test() carry noise multiplied by the same
\* factor: test_opt['noise_scale'] when test options exist and it is not 0,
\* and 1 otherwise (a configured 0 gives 1; no test options give 1).
C8_NoiseFactor ==
    LastCall = "test" =>
        /\ loc.y # Unset =>
             /\ loc.y.b.k = "mul"
             /\ loc.y.b.f = ClaimedFactor
        /\ loc.y_forw # Unset =>
             /\ loc.y_forw.b.k = "mul"
             /\ loc.y_forw.b.f = ClaimedFactor
        /\ pc = "test_eval" => loc.y # Unset
        /\ pc = "test_no_grad_forw" => loc.y_forw # Unset

C8_Witness ==
    /\ Done("test")
    /\ test_opt # None
    /\ test_opt.noise_scale = 0
    /\ loc.y_forw.b.f = 1

\* the image part of self.input
ImageOf(t) == IF t.k = "cat" THEN t.a ELSE t

TestRunning == pc \in {"test_sample", "test_eval", "test_no_grad", "test_reverse",
                       "test_forward", "test_sample_forw", "test_no_grad_forw",
                       "test_reverse_forw", "test_train"}

\* C9: feed_data always replaces var_L and replaces real_H only with
\* need_GT, so real_H is the GT of the last call that had need_GT; test()
\* feeds exactly that GT to the forward pass, whatever batch the LQ is from;
\* while no GT was ever fed, test() raises before any network call and
\* fake_H, forw_L and fake_H_forw stay unset.
C9_StaleGT ==
    /\ var_L = hist.lq
    /\ real_H = hist.gt
    /\ (TestRunning \/ Done("test")) =>
         /\ ImageOf(input) = hist.gt
         /\ \A i \in 1..Len(log) :
              (IsNet(log[i]) /\ ~log[i].rev) => ImageOf(log[i].arg) = hist.gt
    /\ Done("test") => forw_L = Head3(NetOut(input, FALSE, FALSE, FALSE))
    /\ hist.gt = Unset =>
         /\ fake_H = Unset /\ forw_L = Unset /\ fake_H_forw = Unset
         /\ ~TestRunning
         /\ LastCall = "test" =>
              /\ raised = "AttributeError"
              /\ \A i \in 1..Len(log) : ~IsNet(log[i])

C9_Witness ==
    /\ Done("test")
    /\ var_L.id > real_H.id
    /\ forw_L.of.in = real_H

EvalPositions == {"test_no_grad", "test_reverse", "test_forward", "test_sample_forw",
                  "test_no_grad_forw", "test_reverse_forw", "test_train"}

\* C10: as long as no call has raised, the network is in training mode
\* everywhere outside test()'s span from eval() to train(), also for a model
\* built with is_train false; and every test() that returns leaves it in
\* training mode, whatever mode it started in.
C10_TrainingMode ==
    /\ (~hist.failed /\ pc \notin EvalPositions) => netG.training
    /\ Done("test") => netG.training

C10_Witness ==
    /\ Done("test")
    /\ ~is_train
    /\ ~hist.failed
    /\ netG.training

\* not an invariant: a test() that raises between eval() and train() (line 177,
\* LQ and GT of different batch sizes) returns with the network in eval mode,
\* which is why C10 speaks of calls that completed without error
EvalNeverLeaks == pc = "idle" => netG.training

====
